---- MODULE Spec2Model ----
(***************************************************************************)
(* The hash-keyed text-to-speech cache of src/tts.py as a state machine.   *)
(*                                                                         *)
(* The shared state is the cache directory "tts_cache" and the files in    *)
(* it.  Every operation of the module (text_to_speech,                     *)
(* text_to_speech_bytes, clear_cache, get_cache_stats) is a chain of       *)
(* steps, one per filesystem access or backend request, so that the calls  *)
(* of several sessions can interleave.  Spec runs one call at a time;      *)
(* SpecConc, SpecRace and SpecSnap interleave the calls of two sessions.   *)
(*                                                                         *)
(* Around the cache: the users and history tables of src/db.py (SpecUsers, *)
(* SpecHistory), and the pages of src/app.py, whose runs call the          *)
(* recognizer, the LLM, the history and the cache in turn (SpecApp).       *)
(*                                                                         *)
(* Conventions.  A text is a tuple of one-character strings.  A file's     *)
(* content is the sequence of audio chunks written to it (gTTS writes one  *)
(* chunk per request to the speech service).  A size in MB rounded to two  *)
(* decimals is the integer number of hundredths of a MB.  Python values    *)
(* are records tagged by "kind".                                           *)
(***************************************************************************)
EXTENDS Integers, Sequences, FiniteSets, TLC

----------------------------------------------------------------------------
(* Bounds of the model *)

\* calls started in one run
MaxCalls == 3

\* chunks (backend requests) of one synthesized audio
MaxChunks == 2

\* largest max_files argument given to clear_cache
MaxThreshold == 2

\* texts given to the cache: empty, whitespace only, and two that differ
Texts == { <<>>, <<" ", " ">>, <<"a">>, <<" ", "b">> }

\* the texts among them that are spoken
SpokenTexts == { <<"a">>, <<" ", "b">> }

Languages == { "en", "fr" }

\* size in bytes of the i-th chunk of an audio, chosen so that the totals meet
\* the cases of rounding to 0.01 MB: one chunk is 5243 bytes, just above
\* 0.005 MB, and two chunks are 3276800 bytes, 3.125 MB exactly
ChunkBytes(i) == IF i % 2 = 1 THEN 5243 ELSE 3276800 - 5243

\* the sessions that call into the cache; Spec runs the first alone
Callers == { 1, 2 }

SeqCallers == { 1 }

----------------------------------------------------------------------------
(* Python values *)

None == [kind |-> "None"]

Raised(exc) == [kind |-> "raise", exc |-> exc]

BytesOf(content) == [kind |-> "bytes", data |-> content]

StatsDict(count, hundredths) ==
    [kind |-> "stats", file_count |-> count, total_size_mb |-> hundredths]

IntOf(k) == [kind |-> "int", val |-> k]

Message(what, k) == [kind |-> "msg", what |-> what, n |-> k]

----------------------------------------------------------------------------
(* Pure functions of src/tts.py *)

TTS_CACHE_DIR == "tts_cache"

IsSpace(ch) == ch = " "

RECURSIVE LStrip(_)
LStrip(text) ==
    IF text # <<>> /\ IsSpace(Head(text)) THEN LStrip(Tail(text)) ELSE text

RECURSIVE RStrip(_)
RStrip(text) ==
    IF text # <<>> /\ IsSpace(text[Len(text)])
    THEN RStrip(SubSeq(text, 1, Len(text) - 1))
    ELSE text

\* str.strip()
Strip(text) == RStrip(LStrip(text))

IsBlankEmptyOnly(text) == text = <<>>

\* "not text or not text.strip()"
IsBlank(text) == text = <<>> \/ Strip(text) = <<>>

CharCode(ch) == CASE ch = " " -> 1 [] ch = "a" -> 2 [] ch = "b" -> 3

RECURSIVE Digest(_, _)
Digest(text, h) ==
    IF text = <<>> THEN h ELSE Digest(Tail(text), h * 4 + CharCode(Head(text)))

\* sha256(text.encode('utf-8')).hexdigest(): an injection of the text, and
\* of nothing but the text, into the names
get_text_hash(text) == Digest(text, 0)

\* f"{text_hash}.mp3"
CacheFileName(text) == <<get_text_hash(text), "mp3">>

\* os.path.join(TTS_CACHE_DIR, cache_filename)
PathOf(name) == [kind |-> "path", dir |-> TTS_CACHE_DIR, name |-> name]

CachePath(text) == PathOf(CacheFileName(text))

\* f.endswith('.mp3')
EndsWithMp3(name) == name[2] = "mp3"

----------------------------------------------------------------------------
(* The filesystem under tts_cache: fs is a function from the names of the  *)
(* files present to their contents.                                        *)

NoFiles == << >>

FileExistsNever(fs, dirOk, path) == FALSE

\* os.path.exists(cache_path)
FileExists(fs, dirOk, path) ==
    dirOk /\ path.dir = TTS_CACHE_DIR /\ path.name \in DOMAIN fs

\* open(path, "wb"): the file is created, or truncated when it exists
OpenTruncate(fs, name) ==
    [f \in DOMAIN fs \cup {name} |-> IF f = name THEN <<>> ELSE fs[f]]

\* the zero bytes that stand where a chunk of the writer's audio would be
Hole(chunk) == [chunk EXCEPT !.zero = TRUE]

ChunkAtDrop(content, pos, audio) == content

\* fp.write(chunk) by a writer whose file offset is after pos chunks of its
\* audio: the chunk replaces what is there, and the bytes between the end of
\* the file and the offset read as zeros
ChunkAt(content, pos, audio) ==
    [i \in 1..(IF pos + 1 > Len(content) THEN pos + 1 ELSE Len(content)) |->
        IF i = pos + 1 THEN audio[i]
        ELSE IF i <= Len(content) THEN content[i]
        ELSE Hole(audio[i])]

\* a write through a file object whose file is still linked under its name
WriteChunk(fs, name, pos, audio) ==
    [f \in DOMAIN fs |->
        IF f = name THEN ChunkAt(fs[name], pos, audio) ELSE fs[f]]

\* os.remove(file_path)
RemoveFile(fs, name) == [f \in DOMAIN fs \ {name} |-> fs[f]]

\* [f for f in os.listdir(TTS_CACHE_DIR) if f.endswith('.mp3')]
ListMp3(fs) == { f \in DOMAIN fs : EndsWithMp3(f) }

RECURSIVE SumSizes(_)
SumSizes(content) ==
    IF content = <<>> THEN 0 ELSE Head(content).size + SumSizes(Tail(content))

\* os.path.getsize(path)
FileSize(content) == SumSizes(content)

RECURSIVE TotalBytes(_)
TotalBytes(fs) ==
    IF DOMAIN fs = {} THEN 0
    ELSE LET f == CHOOSE g \in DOMAIN fs : TRUE
         IN  SumSizes(fs[f]) + TotalBytes([g \in DOMAIN fs \ {f} |-> fs[g]])

\* the store at one instant, as get_cache_stats measures it: the number of
\* files and their total size in bytes
Snap(fs) == <<Cardinality(DOMAIN fs), TotalBytes(fs)>>

MB == 1024 * 1024

RoundMBTruncate(total) == (total \div MB) * 100 + ((total % MB) * 100) \div MB

\* round(total_size / (1024 * 1024), 2), in hundredths of a MB.  The quotient
\* is exact in binary floating point, and Python rounds an exact tie to the
\* even hundredth.
RoundMB(total) ==
    LET whole == (total \div MB) * 100
        q == ((total % MB) * 100) \div MB
        r == ((total % MB) * 100) % MB
    IN  IF 2 * r > MB THEN whole + q + 1
        ELSE IF 2 * r < MB THEN whole + q
        ELSE IF q % 2 = 0 THEN whole + q ELSE whole + q + 1

ClearSkipsStrict(max_files, count) ==
    max_files.kind = "int" /\ count < max_files.val

\* "max_files is not None and len(files) <= max_files"
ClearSkips(max_files, count) ==
    max_files.kind = "int" /\ count <= max_files.val

----------------------------------------------------------------------------
(* The synthesis backend (gTTS), outside the repository: given the text,   *)
(* the language and the rate it yields the audio in chunks, one per        *)
(* request to the speech service, or fails.                                *)

Chunk(text, lang, slow, i, n) ==
    [text |-> text, lang |-> lang, slow |-> slow, size |-> ChunkBytes(i),
     idx |-> i, of |-> n, zero |-> FALSE]

\* what gTTS(text, lang, slow) may stream
Audios(text, lang, slow) ==
    { [i \in 1..n |-> Chunk(text, lang, slow, i, n)] : n \in 1..MaxChunks }

\* a content that is the whole output of one synthesis
Complete(content) ==
    /\ content # <<>>
    /\ \A i \in 1..Len(content) :
          /\ ~content[i].zero
          /\ content[i].idx = i
          /\ content[i].of = Len(content)
          /\ content[i].text = content[1].text
          /\ content[i].lang = content[1].lang
          /\ content[i].slow = content[1].slow

----------------------------------------------------------------------------
(* The user and history store of src/db.py: two SQLite tables.  A table is *)
(* the sequence of its rows in the order of insertion, so that the id that *)
(* AUTOINCREMENT gives a row is its position.                              *)

\* bcrypt reads at most this many bytes of a password (bcrypt.hashpw)
BcryptMaxBytes == 72

\* "len(reg_password) < 6" of the registration form
MinPasswordLen == 6

\* "limit=10" of the history section
HistoryLimit == 10

\* seconds that pass in one run: CURRENT_TIMESTAMP counts whole seconds
MaxClock == 2

\* rows saved in the history table
MaxRows == 3

\* largest limit given to get_user_history
MaxLimit == 2

Usernames == { "ann", "bob" }

\* a password of n characters that ends in ch
Password(ch, n) == [i \in 1..n |-> IF i = n THEN ch ELSE "k"]

\* passwords of the least accepted length, and passwords one byte longer
\* than bcrypt reads, that differ in their last character only
Passwords ==
    { Password(ch, n) : ch \in {"x", "y"},
                        n \in {MinPasswordLen, BcryptMaxBytes + 1} }

\* what bcrypt.gensalt() may return
Salts == { "s1", "s2" }

UserIds == 1..Cardinality(Usernames)

Str(t) == [kind |-> "str", val |-> t]

Rows(seq) == [kind |-> "rows", rows |-> seq]

\* the truth value Python gives a value in "if value:"
TruthyAnyString(v) ==
    CASE v.kind = "None" -> FALSE
      [] v.kind = "str"  -> TRUE
      [] v.kind = "int"  -> v.val # 0
      [] v.kind = "rows" -> v.rows # <<>>
      [] OTHER           -> TRUE

Truthy(v) ==
    CASE v.kind = "None" -> FALSE
      [] v.kind = "str"  -> v.val # <<>>
      [] v.kind = "int"  -> v.val # 0
      [] v.kind = "rows" -> v.rows # <<>>
      [] OTHER           -> TRUE

Prefix(s, n) == IF Len(s) <= n THEN s ELSE SubSeq(s, 1, n)

\* the password is longer than bcrypt reads
TooLong(password) == Len(password) > BcryptMaxBytes

\* lines 59-61: bcrypt.hashpw(password, salt); the hash is a function of the
\* salt and of the first BcryptMaxBytes bytes of the password
hash_password(password, salt) ==
    [salt |-> salt, key |-> Prefix(password, BcryptMaxBytes)]

\* line 75: bcrypt.checkpw hashes the password with the salt of the stored
\* hash and compares
verify_password(password, hashed) ==
    hash_password(password, hashed.salt) = hashed

\* the rows of the users table with this username
UserRows(tbl, username) ==
    { i \in 1..Len(tbl) : tbl[i].username = username }

\* lines 90-106.  lib tells the bcrypt of the build: TRUE ignores the bytes
\* of a password after BcryptMaxBytes, FALSE raises ValueError for such a
\* password.  hash_password runs before the INSERT; only IntegrityError (the
\* UNIQUE constraint on username) is caught.  The field password of a row is
\* history: the password the user was created with.
create_user(tbl, username, password, salt, lib) ==
    IF TooLong(password) /\ ~lib
    THEN [ret |-> Raised("ValueError"), users |-> tbl]
    ELSE IF UserRows(tbl, username) # {}
    THEN [ret |-> None, users |-> tbl]
    ELSE [ret |-> IntOf(Len(tbl) + 1),
          users |-> Append(tbl, [id |-> Len(tbl) + 1, username |-> username,
                                 password_hash |-> hash_password(password, salt),
                                 password |-> password])]

\* lines 119-134: "if result and verify_password(password, result[1])"
authenticate_user(tbl, username, password, lib) ==
    IF UserRows(tbl, username) = {} THEN None
    ELSE LET row == tbl[CHOOSE i \in UserRows(tbl, username) : TRUE]
         IN  IF TooLong(password) /\ ~lib THEN Raised("ValueError")
             ELSE IF verify_password(password, row.password_hash)
             THEN IntOf(row.id)
             ELSE None

\* lines 146-156: the INSERT; created_at defaults to CURRENT_TIMESTAMP, the
\* second t of the insertion; user_id is NOT NULL
save_conversation(tbl, user_id, user_query, assistant_response, t) ==
    IF user_id.kind # "int"
    THEN [ret |-> Raised("IntegrityError"), history |-> tbl]
    ELSE [ret |-> None,
          history |-> Append(tbl, [id |-> Len(tbl) + 1,
                                   user_id |-> user_id.val,
                                   user_query |-> user_query,
                                   assistant_response |-> assistant_response,
                                   created_at |-> t])]

\* lines 185-192: the dictionary made of a row
HistoryItem(row) ==
    [id |-> row.id, query |-> row.user_query,
     response |-> row.assistant_response, timestamp |-> row.created_at]

\* the rows of the history table of this user
HistoryRows(tbl, user_id) ==
    { i \in 1..Len(tbl) : user_id.kind = "int" /\ tbl[i].user_id = user_id.val }

Min(a, b) == IF a <= b THEN a ELSE b

\* lines 172-183: "WHERE user_id = ? ORDER BY created_at DESC LIMIT ?".  SQL
\* leaves the order of rows with equal created_at open, so every order of
\* them is a result the query may give
get_user_history(tbl, user_id, limit) ==
    LET rows == HistoryRows(tbl, user_id)
        n == Cardinality(rows)
        orders == { f \in [1..n -> rows] :
                      /\ \A j, k \in 1..n : f[j] = f[k] => j = k
                      /\ \A j, k \in 1..n :
                            j < k => tbl[f[j]].created_at >= tbl[f[k]].created_at }
    IN  { Rows([j \in 1..Min(limit, n) |-> HistoryItem(tbl[f[j]])]) :
            f \in orders }

\* no call of db made yet
NoDbCall ==
    [op |-> "none", username |-> "", password |-> <<>>, user_id |-> None,
     limit |-> 0, ret |-> None, users0 |-> <<>>, history0 |-> <<>>]

----------------------------------------------------------------------------
(* The collaborators of the conversation loop (src/asr.py,                 *)
(* src/groq_client.py) and the session of src/app.py                       *)

\* what a speech recognizer or the LLM may yield: nothing, or a text
Outcomes == {None} \cup { Str(t) : t \in Texts }

\* src/asr.py lines 18-46, with w what the Whisper model yields:
\* "transcript = result["text"].strip(); return transcript if transcript
\* else None"
transcribe_audio_whisper(w) ==
    IF w.kind = "str" /\ Strip(w.val) # <<>> THEN Str(Strip(w.val)) ELSE None

\* src/asr.py lines 60-91, with s what recognize_google yields:
\* "return transcript.strip() if transcript else None"
transcribe_audio_sr(s) ==
    IF Truthy(s) THEN Str(Strip(s.val)) ELSE None

\* src/asr.py lines 106-131 with prefer_whisper left at True
transcribe_audio(audio_bytes, w, s) ==
    IF ~audio_bytes THEN None
    ELSE IF Truthy(transcribe_audio_whisper(w)) THEN transcribe_audio_whisper(w)
    ELSE IF Truthy(transcribe_audio_sr(s)) THEN transcribe_audio_sr(s)
    ELSE None

\* src/groq_client.py lines 46-82, with key the value of GROQ_API_KEY and
\* content what the chat completion yields (None when the request raises)
get_completion(key, content) ==
    IF ~Truthy(key) THEN None ELSE content

\* the values os.getenv("GROQ_API_KEY") may have: unset, empty, set
ApiKeys == { None, Str(<<>>), Str(<<"k">>) }

KeyAbsentNever(key) == FALSE

\* src/app.py line 148: "if not os.getenv("GROQ_API_KEY")"
KeyAbsent(key) == ~Truthy(key)

\* the events of one run of the main page: a button, a recording, or neither
Events == { "logout", "clear", "record", "none" }

\* src/app.py lines 20-32: the session state of a new session, followed by
\* the locals of the run the session is in (pc, event, transcript, response,
\* audio) and by history of that run: the collaborators it called, the
\* notices, the response and the caption it displayed, the history it
\* listed, the row it saved, whether it played audio, whether it crashed
NewSession ==
    [authenticated |-> FALSE, user_id |-> None, username |-> None,
     last_transcript |-> None, last_response |-> None, audio_path |-> None,
     pc |-> "idle", event |-> "none",
     transcript |-> None, response |-> None, audio |-> None,
     calls |-> {}, notices |-> {}, shown |-> None, caption |-> None,
     listed |-> None, saved |-> 0, played |-> FALSE, crashed |-> FALSE]

\* the locals and the history of a run at its start
NewRun(s) ==
    [s EXCEPT !.pc = "idle", !.event = "none",
              !.transcript = None, !.response = None, !.audio = None,
              !.calls = {}, !.notices = {}, !.shown = None, !.caption = None,
              !.listed = None, !.saved = 0, !.played = FALSE,
              !.crashed = FALSE]

LoggedOutKeepsExchange(s) ==
    [s EXCEPT !.authenticated = FALSE, !.user_id = None, !.username = None,
              !.audio_path = None]

\* src/app.py lines 124-129: logout
LoggedOut(s) ==
    [s EXCEPT !.authenticated = FALSE, !.user_id = None, !.username = None,
              !.last_transcript = None, !.last_response = None,
              !.audio_path = None]

\* src/app.py lines 41-51: _load_user_last_conversation_into_session, with
\* hist what db.get_user_history(user_id, limit=1) returned
Loaded(s, user_id, hist) ==
    IF Truthy(user_id) /\ Truthy(hist)
    THEN [s EXCEPT !.last_transcript = Str(hist.rows[1].query),
                   !.last_response = Str(hist.rows[1].response),
                   !.audio_path = None]
    ELSE s

AudioNoticeSilent(audio) == {}

\* src/app.py lines 203-219: the notice when no audio path came back
AudioNotice(audio) ==
    IF Truthy(audio) THEN {} ELSE {"Failed to generate audio response"}

\* the recordings given to transcribe_audio: none, and three that are not
\* empty
AudioInputs == { <<>>, <<0>>, <<1>>, <<0, 1>> }

FirstBackendWhisper(prefer_whisper) == "whisper"

\* src/asr.py lines 110 and 121: the backend transcribe_audio tries first
FirstBackend(prefer_whisper) == IF prefer_whisper THEN "whisper" ELSE "sr"

\* src/asr.py lines 116 and 127: the backend it falls back to
OtherBackend(backend) == IF backend = "whisper" THEN "sr" ELSE "whisper"

\* what the backend returns when its recognizer yields raw
Transcribe(backend, raw) ==
    IF backend = "whisper" THEN transcribe_audio_whisper(raw)
    ELSE transcribe_audio_sr(raw)

\* no call of transcribe_audio yet.  invoked, raws and got are history: the
\* backends the call invoked, in order, what the recognizer of each yielded
\* and what each returned
NoAsrCall ==
    [pc |-> "idle", audio_bytes |-> <<>>, prefer_whisper |-> TRUE,
     invoked |-> <<>>, raws |-> <<>>, got |-> <<>>, ret |-> None]

----------------------------------------------------------------------------
(* State *)

VARIABLES
    dirExists,  \* whether the directory tts_cache exists
    files,      \* the files in tts_cache: name -> content
    call,       \* per session: the call it is in, its locals and its result
    ncalls,     \* calls started so far
    seen,       \* history: per request answered with a locator since the
                \* store was last emptied, the first locator, the backend
                \* invocations, and whether every answer was that locator
    clean,      \* history: no backend failure and no clear that kept files
                \* since the store was last empty
    users,      \* the users table of app.db
    history,    \* the history table of app.db
    now,        \* the second CURRENT_TIMESTAMP gives
    truncates,  \* the bcrypt of the build ignores the bytes of a password
                \* after BcryptMaxBytes (TRUE) or raises ValueError (FALSE)
    dbcall,     \* the last call of src/db.py made, its arguments and result
    apiKey,     \* the environment variable GROQ_API_KEY
    asrcall,    \* the call of asr.transcribe_audio made on its own
    session     \* per session: st.session_state and the run it is in

cachevars == <<dirExists, files, call, ncalls, seen, clean>>

vars == <<dirExists, files, call, ncalls, seen, clean,
          users, history, now, truncates, dbcall, apiKey, asrcall,
          session>>

\* a session that is in no call
IdleCall ==
    [pc |-> "idle", op |-> "none",
     text |-> <<>>, lang |-> "en", slow |-> FALSE, max_files |-> None,
     audio |-> <<>>, pos |-> 0, linked |-> FALSE, path |-> None,
     listed |-> {}, todo |-> {}, total |-> 0,
     ret |-> None, printed |-> None,
     nsynth |-> 0, fsops |-> 0, failed |-> FALSE,
     pre |-> NoFiles, preDir |-> FALSE, prev |-> "none", got |-> None,
     snaps |-> {}]

\* what the session's last call was, for the call that follows it
Summary(rec) ==
    IF rec.op = "clear" /\ rec.max_files = None THEN "clear_all" ELSE rec.op

\* the locals of a call at its entry
Entry(c, op) ==
    [IdleCall EXCEPT !.op = op, !.pre = files, !.preDir = dirExists,
                     !.prev = Summary(call[c])]

CanCall(c) == call[c].pc \in {"idle", "done"} /\ ncalls < MaxCalls

Request(rec) == <<rec.text, rec.lang, rec.slow>>

\* history: every call of get_cache_stats that has not returned notes the
\* store fs as one of the instants of the call
Observed(cl, fs) ==
    [d \in Callers |->
        IF cl[d].op = "stats" /\ cl[d].pc \in {"s_list", "s_size"}
        THEN [cl[d] EXCEPT !.snaps = @ \cup {Snap(fs)}]
        ELSE cl[d]]

\* no cache directory yet
CacheEmpty ==
    /\ dirExists = FALSE
    /\ files = NoFiles
    /\ call = [c \in Callers |-> IdleCall]
    /\ ncalls = 0
    /\ seen = << >>
    /\ clean = TRUE

\* outside the cache: no account, no history, the key set, no session
\* past its start
Outside ==
    /\ users = <<>>
    /\ history = <<>>
    /\ now = 0
    /\ truncates = TRUE
    /\ dbcall = NoDbCall
    /\ apiKey = Str(<<"k">>)
    /\ asrcall = NoAsrCall
    /\ session = [c \in Callers |-> NewSession]

\* what the calls into src/tts.py leave alone
OutsideUnchanged ==
    UNCHANGED <<users, history, now, truncates, dbcall, apiKey, asrcall, session>>

Init == CacheEmpty /\ Outside

\* the content a locator points to, when the caller receives it
Pointee(fs, value) ==
    IF value.kind = "path" /\ value.name \in DOMAIN fs
    THEN BytesOf(fs[value.name]) ELSE None

\* the history after text_to_speech answered request req with value
SeenAfter(req, value, nsynth) ==
    IF value.kind # "path" THEN seen
    ELSE IF req \in DOMAIN seen
    THEN [seen EXCEPT ![req] = [loc |-> @.loc, synth |-> @.synth + nsynth,
                                same |-> @.same /\ value = @.loc]]
    ELSE [r \in DOMAIN seen \cup {req} |->
            IF r = req THEN [loc |-> value, synth |-> nsynth, same |-> TRUE]
            ELSE seen[r]]

\* text_to_speech returns value, with rec the locals at that point and fs the
\* files: to its caller, or into text_to_speech_bytes (line 91)
TtsReturn(c, rec, value, fs) ==
    /\ call' = Observed([call EXCEPT ![c] =
          IF rec.op = "tts" \/ value.kind # "path"
          THEN [rec EXCEPT !.pc = "done", !.ret = value,
                           !.got = Pointee(fs, value)]
          ELSE [rec EXCEPT !.pc = "b_exists", !.path = value]], fs)
    /\ seen' = SeenAfter(Request(rec), value, rec.nsynth)
    /\ clean' = (clean /\ value.kind = "path")

----------------------------------------------------------------------------
(* text_to_speech(text, language, slow), and text_to_speech_bytes, which   *)
(* calls it first                                                          *)

\* lines 51-52: the call, and the rejection of empty or whitespace-only text
CallTts(c, op, text, lang, slow) ==
    /\ CanCall(c)
    /\ ncalls' = ncalls + 1
    /\ LET rec == [Entry(c, op) EXCEPT !.text = text, !.lang = lang,
                                       !.slow = slow]
       IN  call' = [call EXCEPT ![c] =
              IF IsBlank(text)
              THEN [rec EXCEPT !.pc = "done", !.ret = None]
              ELSE [rec EXCEPT !.pc = "t_ensure"]]
    /\ UNCHANGED <<dirExists, files, seen, clean>>

\* line 20: "if not os.path.exists(TTS_CACHE_DIR)"
EnsureCheck(c) ==
    /\ call[c].pc = "t_ensure"
    /\ call' = [call EXCEPT ![c].fsops = @ + 1,
                            ![c].pc = IF dirExists THEN "t_exists"
                                      ELSE "t_mkdir"]
    /\ UNCHANGED <<dirExists, files, ncalls, seen, clean>>

\* line 21: os.makedirs, which raises FileExistsError when another session
\* made the directory since line 20; nothing in text_to_speech catches it
EnsureMakedirs(c) ==
    /\ call[c].pc = "t_mkdir"
    /\ LET rec == [call[c] EXCEPT !.fsops = @ + 1]
       IN  IF dirExists
           THEN /\ call' = [call EXCEPT ![c] =
                      [rec EXCEPT !.pc = "done",
                                  !.ret = Raised("FileExistsError")]]
                /\ clean' = FALSE
                /\ UNCHANGED <<dirExists, seen>>
           ELSE /\ dirExists' = TRUE
                /\ call' = [call EXCEPT ![c] = [rec EXCEPT !.pc = "t_exists"]]
                /\ UNCHANGED <<seen, clean>>
    /\ UNCHANGED <<files, ncalls>>

\* lines 57-63: the key, the path, and the hit
CacheLookup(c) ==
    /\ call[c].pc = "t_exists"
    /\ LET rec == [call[c] EXCEPT !.fsops = @ + 1]
           cache_path == CachePath(rec.text)
       IN  IF FileExists(files, dirExists, cache_path)
           THEN TtsReturn(c, rec, cache_path, files)
           ELSE /\ call' = [call EXCEPT ![c] = [rec EXCEPT !.pc = "t_new"]]
                /\ UNCHANGED <<seen, clean>>
    /\ UNCHANGED <<dirExists, files, ncalls>>

\* line 67: gTTS(text=text, lang=language, slow=slow) accepts the request
BackendAccepts(c) ==
    /\ call[c].pc = "t_new"
    /\ \E audio \in Audios(call[c].text, call[c].lang, call[c].slow) :
          call' = [call EXCEPT ![c].nsynth = @ + 1, ![c].audio = audio,
                               ![c].pc = "t_open"]
    /\ UNCHANGED <<dirExists, files, ncalls, seen, clean>>

\* line 67 raises (a language gTTS does not know); lines 74-76 return None
BackendRejects(c) ==
    /\ call[c].pc = "t_new"
    /\ TtsReturn(c, [call[c] EXCEPT !.nsynth = @ + 1, !.failed = TRUE],
                 None, files)
    /\ UNCHANGED <<dirExists, files, ncalls>>

\* line 70, tts.save(cache_path): gTTS opens the path for writing before it
\* asks the speech service for anything
SaveOpen(c) ==
    /\ call[c].pc = "t_open"
    /\ files' = OpenTruncate(files, CacheFileName(call[c].text))
    /\ call' = Observed([call EXCEPT ![c].fsops = @ + 1, ![c].pos = 0,
                                     ![c].linked = TRUE,
                                     ![c].pc = "t_write"], files')
    /\ UNCHANGED <<dirExists, ncalls, seen, clean>>

\* line 70: the service answers one request and gTTS writes the chunk; after
\* the last chunk the file is closed and line 72 returns the path
SaveWrite(c) ==
    /\ call[c].pc = "t_write"
    /\ LET rec == [call[c] EXCEPT !.fsops = @ + 1, !.pos = @ + 1]
           name == CacheFileName(rec.text)
           fs == IF rec.linked /\ name \in DOMAIN files
                 THEN WriteChunk(files, name, call[c].pos, rec.audio)
                 ELSE files
       IN  /\ files' = fs
           /\ IF rec.pos = Len(rec.audio)
              THEN TtsReturn(c, rec, CachePath(rec.text), fs)
              ELSE /\ call' = Observed([call EXCEPT ![c] = rec], fs)
                   /\ UNCHANGED <<seen, clean>>
    /\ UNCHANGED <<dirExists, ncalls>>

\* line 70: a request to the service fails; the file is closed as it is,
\* and lines 74-76 return None
SaveFails(c) ==
    /\ call[c].pc = "t_write"
    /\ TtsReturn(c, [call[c] EXCEPT !.failed = TRUE], None, files)
    /\ UNCHANGED <<dirExists, files, ncalls>>

\* line 93: "not audio_path or not os.path.exists(audio_path)"
BytesExists(c) ==
    /\ call[c].pc = "b_exists"
    /\ call' = [call EXCEPT ![c] =
          IF FileExists(files, dirExists, call[c].path)
          THEN [call[c] EXCEPT !.fsops = @ + 1, !.pc = "b_read"]
          ELSE [call[c] EXCEPT !.fsops = @ + 1, !.pc = "done", !.ret = None]]
    /\ UNCHANGED <<dirExists, files, ncalls, seen, clean>>

\* lines 96-101: the read; a file removed since line 93 makes open raise,
\* which is caught
BytesRead(c) ==
    /\ call[c].pc = "b_read"
    /\ call' = [call EXCEPT ![c] =
          [call[c] EXCEPT !.fsops = @ + 1, !.pc = "done",
                    !.ret = IF call[c].path.name \in DOMAIN files
                            THEN BytesOf(files[call[c].path.name])
                            ELSE None,
                    !.printed = IF call[c].path.name \in DOMAIN files
                                THEN None
                                ELSE Message("Error reading audio file", 0)]]
    /\ UNCHANGED <<dirExists, files, ncalls, seen, clean>>

----------------------------------------------------------------------------
(* clear_cache(max_files) *)

\* the thresholds given to clear_cache
Thresholds == {None} \cup { IntOf(k) : k \in 0..MaxThreshold }

\* clear_cache returns, with rec the locals at that point and fs the files.
\* Every return of clear_cache is a bare return: the value is None.
ClearReturn(c, rec, fs) ==
    /\ call' = [call EXCEPT ![c] = [rec EXCEPT !.pc = "done", !.ret = None]]
    /\ seen' = IF DOMAIN fs = {} THEN << >> ELSE seen
    /\ clean' = (DOMAIN fs = {})

ClearedMessageLeft(listed, fs) == Message("Cleared", Cardinality(DOMAIN fs))

\* line 126: print(f"Cleared {len(files)} cached audio files")
ClearedMessage(listed, fs) == Message("Cleared", Cardinality(listed))

\* lines 111-112: the call, and the return when there is no directory
CallClear(c, max_files) ==
    /\ CanCall(c)
    /\ ncalls' = ncalls + 1
    /\ LET rec == [Entry(c, "clear") EXCEPT !.max_files = max_files,
                                            !.fsops = 1]
       IN  IF ~dirExists
           THEN ClearReturn(c, rec, files)
           ELSE /\ call' = [call EXCEPT ![c] = [rec EXCEPT !.pc = "c_list"]]
                /\ UNCHANGED <<seen, clean>>
    /\ UNCHANGED <<dirExists, files>>

\* lines 115-119: the listing and the threshold
ClearList(c) ==
    /\ call[c].pc = "c_list"
    /\ LET rec == [call[c] EXCEPT !.fsops = @ + 1, !.listed = ListMp3(files),
                                  !.todo = ListMp3(files)]
       IN  IF ClearSkips(rec.max_files, Cardinality(rec.listed))
           THEN ClearReturn(c, rec, files)
           ELSE /\ call' = [call EXCEPT ![c] = [rec EXCEPT !.pc = "c_remove"]]
                /\ UNCHANGED <<seen, clean>>
    /\ UNCHANGED <<dirExists, files, ncalls>>

\* lines 122-124: one os.remove.  A file that another session removed since
\* the listing makes it raise; lines 128-129 catch that and return.  A
\* session writing the removed file keeps writing to a file without a name.
ClearRemove(c) ==
    /\ call[c].pc = "c_remove"
    /\ \E f \in call[c].todo :
          LET rec == [call[c] EXCEPT !.fsops = @ + 1, !.todo = @ \ {f}]
          IN  IF f \in DOMAIN files
              THEN /\ files' = RemoveFile(files, f)
                   /\ call' = Observed([d \in Callers |->
                         IF d = c THEN rec
                         ELSE IF CacheFileName(call[d].text) = f
                         THEN [call[d] EXCEPT !.linked = FALSE]
                         ELSE call[d]], RemoveFile(files, f))
                   /\ UNCHANGED <<seen, clean>>
              ELSE /\ ClearReturn(c,
                         [rec EXCEPT !.printed =
                              Message("Error clearing cache", 0)], files)
                   /\ UNCHANGED files
    /\ UNCHANGED <<dirExists, ncalls>>

\* line 126, after the last removal
ClearDone(c) ==
    /\ call[c].pc = "c_remove"
    /\ call[c].todo = {}
    /\ ClearReturn(c, [call[c] EXCEPT !.printed =
                           ClearedMessage(call[c].listed, files)], files)
    /\ UNCHANGED <<dirExists, files, ncalls>>

----------------------------------------------------------------------------
(* get_cache_stats() *)

\* lines 139-140: the call, and the answer when there is no directory
CallStats(c) ==
    /\ CanCall(c)
    /\ ncalls' = ncalls + 1
    /\ LET rec == [Entry(c, "stats") EXCEPT !.fsops = 1,
                                            !.snaps = {Snap(files)}]
       IN  call' = [call EXCEPT ![c] =
              IF ~dirExists
              THEN [rec EXCEPT !.pc = "done", !.ret = StatsDict(0, 0)]
              ELSE [rec EXCEPT !.pc = "s_list"]]
    /\ UNCHANGED <<dirExists, files, seen, clean>>

\* line 143: the listing
StatsList(c) ==
    /\ call[c].pc = "s_list"
    /\ call' = [call EXCEPT ![c].fsops = @ + 1, ![c].listed = ListMp3(files),
                            ![c].todo = ListMp3(files), ![c].total = 0,
                            ![c].pc = "s_size"]
    /\ UNCHANGED <<dirExists, files, ncalls, seen, clean>>

\* lines 144-147: one os.path.getsize.  A file removed since the listing
\* makes it raise; lines 154-156 catch that and answer 0 and 0.0.
StatsSize(c) ==
    /\ call[c].pc = "s_size"
    /\ \E f \in call[c].todo :
          call' = [call EXCEPT ![c] =
             IF f \in DOMAIN files
             THEN [call[c] EXCEPT !.fsops = @ + 1, !.todo = @ \ {f},
                                  !.total = @ + FileSize(files[f])]
             ELSE [call[c] EXCEPT !.fsops = @ + 1, !.pc = "done",
                                  !.printed =
                                      Message("Error getting cache stats", 0),
                                  !.ret = StatsDict(0, 0)]]
    /\ UNCHANGED <<dirExists, files, ncalls, seen, clean>>

\* lines 149-152: the answer
StatsDone(c) ==
    /\ call[c].pc = "s_size"
    /\ call[c].todo = {}
    /\ call' = [call EXCEPT ![c].pc = "done",
                            ![c].ret = StatsDict(Cardinality(call[c].listed),
                                                 RoundMB(call[c].total))]
    /\ UNCHANGED <<dirExists, files, ncalls, seen, clean>>

----------------------------------------------------------------------------
(* Specifications *)

StartTts(c) ==
    \E op \in {"tts", "bytes"}, text \in Texts, lang \in Languages,
       slow \in BOOLEAN : CallTts(c, op, text, lang, slow)

StartClear(c) == \E max_files \in Thresholds : CallClear(c, max_files)

Step(c) ==
    \/ StartTts(c) /\ OutsideUnchanged
    \/ EnsureCheck(c) /\ OutsideUnchanged
    \/ EnsureMakedirs(c) /\ OutsideUnchanged
    \/ CacheLookup(c) /\ OutsideUnchanged
    \/ BackendAccepts(c) /\ OutsideUnchanged
    \/ BackendRejects(c) /\ OutsideUnchanged
    \/ SaveOpen(c) /\ OutsideUnchanged
    \/ SaveWrite(c) /\ OutsideUnchanged
    \/ SaveFails(c) /\ OutsideUnchanged
    \/ BytesExists(c) /\ OutsideUnchanged
    \/ BytesRead(c) /\ OutsideUnchanged
    \/ StartClear(c) /\ OutsideUnchanged
    \/ ClearList(c) /\ OutsideUnchanged
    \/ ClearRemove(c) /\ OutsideUnchanged
    \/ ClearDone(c) /\ OutsideUnchanged
    \/ CallStats(c) /\ OutsideUnchanged
    \/ StatsList(c) /\ OutsideUnchanged
    \/ StatsSize(c) /\ OutsideUnchanged
    \/ StatsDone(c) /\ OutsideUnchanged

\* one session: every call runs from its entry to its return before the next
Next == \E c \in SeqCallers : Step(c)

Spec == Init /\ [][Next]_vars

\* the calls of text_to_speech that the interleaved sessions make: default
\* language and rate, as the conversation loop calls it (src/app.py line 201)
StartTtsDefault(c) ==
    \E op \in {"tts", "bytes"}, text \in SpokenTexts :
        CallTts(c, op, text, "en", FALSE)

StartClearAll(c) == CallClear(c, None)

StepConc(c) ==
    \/ StartTtsDefault(c) /\ OutsideUnchanged
    \/ EnsureCheck(c) /\ OutsideUnchanged
    \/ EnsureMakedirs(c) /\ OutsideUnchanged
    \/ CacheLookup(c) /\ OutsideUnchanged
    \/ BackendAccepts(c) /\ OutsideUnchanged
    \/ BackendRejects(c) /\ OutsideUnchanged
    \/ SaveOpen(c) /\ OutsideUnchanged
    \/ SaveWrite(c) /\ OutsideUnchanged
    \/ SaveFails(c) /\ OutsideUnchanged
    \/ BytesExists(c) /\ OutsideUnchanged
    \/ BytesRead(c) /\ OutsideUnchanged
    \/ StartClearAll(c) /\ OutsideUnchanged
    \/ ClearList(c) /\ OutsideUnchanged
    \/ ClearRemove(c) /\ OutsideUnchanged
    \/ ClearDone(c) /\ OutsideUnchanged
    \/ CallStats(c) /\ OutsideUnchanged
    \/ StatsList(c) /\ OutsideUnchanged
    \/ StatsSize(c) /\ OutsideUnchanged
    \/ StatsDone(c) /\ OutsideUnchanged

\* two sessions, interleaved at every filesystem access and backend request
NextConc == \E c \in Callers : StepConc(c)

SpecConc == Init /\ [][NextConc]_vars

\* two sessions that only call text_to_speech, in English at either rate
StartTtsRace(c) ==
    \E text \in SpokenTexts, slow \in BOOLEAN :
        CallTts(c, "tts", text, "en", slow)

StepRace(c) ==
    \/ StartTtsRace(c) /\ OutsideUnchanged
    \/ EnsureCheck(c) /\ OutsideUnchanged
    \/ EnsureMakedirs(c) /\ OutsideUnchanged
    \/ CacheLookup(c) /\ OutsideUnchanged
    \/ BackendAccepts(c) /\ OutsideUnchanged
    \/ BackendRejects(c) /\ OutsideUnchanged
    \/ SaveOpen(c) /\ OutsideUnchanged
    \/ SaveWrite(c) /\ OutsideUnchanged
    \/ SaveFails(c) /\ OutsideUnchanged

NextRace == \E c \in Callers : StepRace(c)

SpecRace == Init /\ [][NextRace]_vars

\* the cache after each spoken text was synthesized once, in English at the
\* normal rate, into one chunk: a state Spec reaches with two calls, and the
\* state a later run of the program starts in, the cache being kept on disk
CacheStocked ==
    /\ dirExists = TRUE
    /\ files = [name \in { CacheFileName(t) : t \in SpokenTexts } |->
                  LET t == CHOOSE u \in SpokenTexts : CacheFileName(u) = name
                  IN  << Chunk(t, "en", FALSE, 1, 1) >>]
    /\ call = [c \in Callers |-> IdleCall]
    /\ ncalls = 0
    /\ seen = [r \in { <<t, "en", FALSE>> : t \in SpokenTexts } |->
                 [loc |-> CachePath(r[1]), synth |-> 1, same |-> TRUE]]
    /\ clean = TRUE

InitStocked == CacheStocked /\ Outside

\* two sessions that call get_cache_stats and clear_cache(), as the sidebar
\* of every session does (src/app.py lines 135 and 139)
StepSnap(c) ==
    \/ StartClearAll(c) /\ OutsideUnchanged
    \/ ClearList(c) /\ OutsideUnchanged
    \/ ClearRemove(c) /\ OutsideUnchanged
    \/ ClearDone(c) /\ OutsideUnchanged
    \/ CallStats(c) /\ OutsideUnchanged
    \/ StatsList(c) /\ OutsideUnchanged
    \/ StatsSize(c) /\ OutsideUnchanged
    \/ StatsDone(c) /\ OutsideUnchanged

NextSnap == \E c \in Callers : StepSnap(c)

SpecSnap == InitStocked /\ [][NextSnap]_vars

----------------------------------------------------------------------------
(* The calls of src/db.py, made one at a time                              *)

\* create_user(username, password)
DbCreateUser(username, password) ==
    /\ \E salt \in Salts :
          LET r == create_user(users, username, password, salt, truncates)
          IN  /\ users' = r.users
              /\ dbcall' = [NoDbCall EXCEPT !.op = "create_user",
                                            !.username = username,
                                            !.password = password,
                                            !.ret = r.ret, !.users0 = users]
    /\ UNCHANGED <<history, now, truncates, apiKey, asrcall, session>>
    /\ UNCHANGED cachevars

\* authenticate_user(username, password)
DbAuthenticate(username, password) ==
    /\ dbcall' = [NoDbCall EXCEPT
                     !.op = "authenticate_user", !.username = username,
                     !.password = password, !.users0 = users,
                     !.ret = authenticate_user(users, username, password,
                                               truncates)]
    /\ UNCHANGED <<users, history, now, truncates, apiKey, asrcall, session>>
    /\ UNCHANGED cachevars

NextUsers ==
    \E username \in Usernames, password \in Passwords :
        \/ DbCreateUser(username, password)
        \/ DbAuthenticate(username, password)

\* the store before the first account, with either bcrypt
InitUsers ==
    /\ CacheEmpty
    /\ users = <<>>
    /\ history = <<>>
    /\ now = 0
    /\ truncates \in BOOLEAN
    /\ dbcall = NoDbCall
    /\ apiKey = Str(<<"k">>)
    /\ asrcall = NoAsrCall
    /\ session = [c \in Callers |-> NewSession]

SpecUsers == InitUsers /\ [][NextUsers]_vars

\* the questions that reach the history: transcripts are stripped
Transcripts == { Strip(t) : t \in SpokenTexts }

\* save_conversation(user_id, user_query, assistant_response)
DbSave(user_id, user_query, assistant_response) ==
    /\ Len(history) < MaxRows
    /\ LET r == save_conversation(history, IntOf(user_id), user_query,
                                  assistant_response, now)
       IN  /\ history' = r.history
           /\ dbcall' = [NoDbCall EXCEPT !.op = "save_conversation",
                                         !.user_id = IntOf(user_id),
                                         !.ret = r.ret, !.history0 = history]
    /\ UNCHANGED <<users, now, truncates, apiKey, asrcall, session>>
    /\ UNCHANGED cachevars

\* get_user_history(user_id, limit)
DbHistory(user_id, limit) ==
    /\ \E r \in get_user_history(history, IntOf(user_id), limit) :
          dbcall' = [NoDbCall EXCEPT !.op = "get_user_history",
                                     !.user_id = IntOf(user_id),
                                     !.limit = limit, !.ret = r,
                                     !.history0 = history]
    /\ UNCHANGED <<users, history, now, truncates, apiKey, asrcall, session>>
    /\ UNCHANGED cachevars

\* a second passes
Tick ==
    /\ now < MaxClock
    /\ now' = now + 1
    /\ UNCHANGED <<users, history, truncates, dbcall, apiKey, asrcall, session>>
    /\ UNCHANGED cachevars

NextHistory ==
    \/ \E user_id \in UserIds, q \in Transcripts :
          DbSave(user_id, q, <<"a">>)
    \/ \E user_id \in UserIds, limit \in 0..MaxLimit :
          DbHistory(user_id, limit)
    \/ Tick

SpecHistory == Init /\ [][NextHistory]_vars

----------------------------------------------------------------------------
(* The pages of src/app.py.  Streamlit runs main() once per event of the   *)
(* session; a run is a chain of steps, one per call of a collaborator.     *)

\* the passwords the registration form is given: one of the least accepted
\* length and one that is too short
RegisterPasswords ==
    { Password("x", MinPasswordLen), Password("x", MinPasswordLen - 1) }

\* the passwords the login form is given: the registered one and another
LoginPasswords ==
    { Password("x", MinPasswordLen), Password("y", MinPasswordLen) }

\* the name the registration form is given
AppUsernames == { "ann" }

Name(username) == [kind |-> "name", val |-> username]

\* lines 97-111: the Register button of login_page
AppRegister(c, username, password, confirm) ==
    /\ session[c].pc = "idle"
    /\ ~session[c].authenticated
    /\ LET run == NewRun(session[c])
       IN  IF password # confirm
           THEN /\ session' = [session EXCEPT ![c] =
                       [run EXCEPT !.notices = {"Passwords do not match"}]]
                /\ users' = users
           ELSE IF Len(password) < MinPasswordLen
           THEN /\ session' = [session EXCEPT ![c] =
                       [run EXCEPT !.notices =
                           {"Password must be at least 6 characters"}]]
                /\ users' = users
           ELSE \E salt \in Salts :
                   LET r == create_user(users, username, password, salt,
                                        truncates)
                   IN  /\ users' = r.users
                       /\ session' = [session EXCEPT ![c] =
                             IF r.ret.kind = "raise"
                             THEN [run EXCEPT !.crashed = TRUE]
                             ELSE IF Truthy(r.ret)
                             THEN [run EXCEPT !.notices =
                                     {"Account created successfully! Please login."}]
                             ELSE [run EXCEPT !.notices =
                                     {"Username already exists"}]]
    /\ UNCHANGED <<history, now, truncates, dbcall, apiKey, asrcall>>
    /\ UNCHANGED cachevars

\* lines 72-89: the Login button of login_page
AppLogin(c, username, password) ==
    /\ session[c].pc = "idle"
    /\ ~session[c].authenticated
    /\ LET run == NewRun(session[c])
           user_id == authenticate_user(users, username, password, truncates)
       IN  IF user_id.kind = "raise"
           THEN session' = [session EXCEPT ![c] =
                               [run EXCEPT !.crashed = TRUE]]
           ELSE IF Truthy(user_id)
           THEN \E hist \in get_user_history(history, user_id, 1) :
                   session' = [session EXCEPT ![c] =
                      Loaded([run EXCEPT !.authenticated = TRUE,
                                         !.user_id = user_id,
                                         !.username = Name(username),
                                         !.notices = {"Welcome back"}],
                             user_id, hist)]
           ELSE session' = [session EXCEPT ![c] =
                   [run EXCEPT !.notices = {"Invalid username or password"}]]
    /\ UNCHANGED <<users, history, now, truncates, dbcall, apiKey, asrcall>>
    /\ UNCHANGED cachevars

\* lines 283-284 and 119-130: a run of the main page starts; the Logout
\* button ends it
AppStart(c, event) ==
    /\ session[c].pc = "idle"
    /\ session[c].authenticated
    /\ session' = [session EXCEPT ![c] =
          IF event = "logout"
          THEN [LoggedOut(NewRun(session[c])) EXCEPT !.event = event]
          ELSE [NewRun(session[c]) EXCEPT !.event = event, !.pc = "m_stats"]]
    /\ UNCHANGED <<users, history, now, truncates, dbcall, apiKey, asrcall>>
    /\ UNCHANGED cachevars

\* line 135: tts.get_cache_stats()
AppStats(c) ==
    /\ session[c].pc = "m_stats"
    /\ CallStats(c)
    /\ session' = [session EXCEPT ![c].calls = @ \cup {"stats"},
                                  ![c].pc = "m_stats_wait"]
    /\ UNCHANGED <<users, history, now, truncates, dbcall, apiKey, asrcall>>

\* lines 136-138: the caption, and the Clear Cache button
AppCaption(c) ==
    /\ session[c].pc = "m_stats_wait"
    /\ call[c].pc = "done"
    /\ session' = [session EXCEPT
          ![c].caption = call[c].ret,
          ![c].pc = IF session[c].event = "clear" THEN "m_clear" ELSE "m_key"]
    /\ UNCHANGED <<users, history, now, truncates, dbcall, apiKey, asrcall>>
    /\ UNCHANGED cachevars

\* line 139: tts.clear_cache()
AppClear(c) ==
    /\ session[c].pc = "m_clear"
    /\ CallClear(c, None)
    /\ session' = [session EXCEPT ![c].calls = @ \cup {"clear"},
                                  ![c].pc = "m_clear_wait"]
    /\ UNCHANGED <<users, history, now, truncates, dbcall, apiKey, asrcall>>

\* lines 140-141: the notice and the rerun
AppCleared(c) ==
    /\ session[c].pc = "m_clear_wait"
    /\ call[c].pc = "done"
    /\ session' = [session EXCEPT ![c].notices = @ \cup {"Cache cleared!"},
                                  ![c].pc = "idle"]
    /\ UNCHANGED <<users, history, now, truncates, dbcall, apiKey, asrcall>>
    /\ UNCHANGED cachevars

\* lines 148-168: the check of GROQ_API_KEY with st.stop(), the load of the
\* last conversation, and the recorder
AppKeyCheck(c) ==
    /\ session[c].pc = "m_key"
    /\ IF KeyAbsent(apiKey)
       THEN session' = [session EXCEPT
               ![c].notices = @ \cup {"GROQ_API_KEY not found"},
               ![c].pc = "idle"]
       ELSE \E hist \in get_user_history(history, session[c].user_id, 1) :
               LET s == IF /\ session[c].authenticated
                           /\ ~Truthy(session[c].last_transcript)
                        THEN Loaded(session[c], session[c].user_id, hist)
                        ELSE session[c]
               IN  session' = [session EXCEPT ![c] =
                      [s EXCEPT !.pc = IF s.event = "record" THEN "m_asr"
                                       ELSE "m_prev"]]
    /\ UNCHANGED <<users, history, now, truncates, dbcall, apiKey, asrcall>>
    /\ UNCHANGED cachevars

\* lines 171-176 and 223-224: asr.transcribe_audio(audio_bytes)
AppTranscribe(c) ==
    /\ session[c].pc = "m_asr"
    /\ \E w \in Outcomes, s \in Outcomes :
          LET transcript == transcribe_audio(TRUE, w, s)
          IN  session' = [session EXCEPT ![c] =
                 IF Truthy(transcript)
                 THEN [session[c] EXCEPT !.transcript = transcript,
                                !.last_transcript = transcript,
                                !.calls = @ \cup {"asr"}, !.pc = "m_llm"]
                 ELSE [session[c] EXCEPT !.transcript = transcript,
                                !.calls = @ \cup {"asr"},
                                !.notices = @ \cup
                                    {"Failed to transcribe audio"},
                                !.pc = "m_history"]]
    /\ UNCHANGED <<users, history, now, truncates, dbcall, apiKey, asrcall>>
    /\ UNCHANGED cachevars

\* lines 178-181 and 221-222: groq_client.get_learning_assistant_response
AppRespond(c) ==
    /\ session[c].pc = "m_llm"
    /\ \E content \in Outcomes :
          LET response == get_completion(apiKey, content)
          IN  session' = [session EXCEPT ![c] =
                 IF Truthy(response)
                 THEN [session[c] EXCEPT !.response = response,
                                !.calls = @ \cup {"llm"}, !.pc = "m_save"]
                 ELSE [session[c] EXCEPT !.response = response,
                                !.calls = @ \cup {"llm"},
                                !.notices = @ \cup
                                    {"Failed to get response from assistant"},
                                !.pc = "m_history"]]
    /\ UNCHANGED <<users, history, now, truncates, dbcall, apiKey, asrcall>>
    /\ UNCHANGED cachevars

\* lines 182-197: the response goes to the session, to the history (with a
\* warning when db.save_conversation raises) and to the page
AppSave(c) ==
    /\ session[c].pc = "m_save"
    /\ LET r == save_conversation(history, session[c].user_id,
                                  session[c].transcript.val,
                                  session[c].response.val, now)
       IN  /\ history' = r.history
           /\ session' = [session EXCEPT ![c] =
                 [session[c] EXCEPT !.last_response = session[c].response,
                           !.calls = @ \cup {"save"},
                           !.saved = IF r.ret.kind = "raise" THEN 0
                                     ELSE Len(r.history),
                           !.notices = @ \cup
                               (IF r.ret.kind = "raise"
                                THEN {"Could not save conversation to history."}
                                ELSE {}),
                           !.shown = session[c].response,
                           !.pc = "m_tts"]]
    /\ UNCHANGED <<users, now, truncates, dbcall, apiKey, asrcall>>
    /\ UNCHANGED cachevars

\* lines 200-201: tts.text_to_speech(response)
AppSynthesize(c) ==
    /\ session[c].pc = "m_tts"
    /\ CallTts(c, "tts", session[c].response.val, "en", FALSE)
    /\ session' = [session EXCEPT ![c].calls = @ \cup {"tts"},
                                  ![c].pc = "m_tts_wait"]
    /\ UNCHANGED <<users, history, now, truncates, dbcall, apiKey, asrcall>>

\* lines 203-219: the audio, or the notice that there is none; an exception
\* of text_to_speech ends the run
AppAudio(c) ==
    /\ session[c].pc = "m_tts_wait"
    /\ call[c].pc = "done"
    /\ LET audio_path == call[c].ret
       IN  session' = [session EXCEPT ![c] =
              IF audio_path.kind = "raise"
              THEN [session[c] EXCEPT !.crashed = TRUE, !.pc = "idle"]
              ELSE IF Truthy(audio_path)
              THEN [session[c] EXCEPT
                      !.audio = audio_path, !.audio_path = audio_path,
                      !.played = FileExists(files, dirExists, audio_path),
                      !.notices = @ \cup
                          (IF FileExists(files, dirExists, audio_path)
                           THEN {}
                           ELSE {"Generated audio file not found."}),
                      !.pc = "m_history"]
              ELSE [session[c] EXCEPT !.audio = audio_path,
                             !.notices = @ \cup AudioNotice(audio_path),
                             !.pc = "m_history"]]
    /\ UNCHANGED <<users, history, now, truncates, dbcall, apiKey, asrcall>>
    /\ UNCHANGED cachevars

\* lines 227-241: without a recording, the previous exchange of the session
AppPrevious(c) ==
    /\ session[c].pc = "m_prev"
    /\ session' = [session EXCEPT ![c] =
          IF /\ session[c].authenticated
             /\ Truthy(session[c].last_transcript)
             /\ Truthy(session[c].last_response)
          THEN [session[c] EXCEPT !.shown = session[c].last_response,
                         !.played =
                            /\ Truthy(session[c].audio_path)
                            /\ FileExists(files, dirExists,
                                          session[c].audio_path),
                         !.pc = "m_history"]
          ELSE [session[c] EXCEPT !.pc = "m_history"]]
    /\ UNCHANGED <<users, history, now, truncates, dbcall, apiKey, asrcall>>
    /\ UNCHANGED cachevars

\* lines 247-261: the history section, which ends the run
AppHistory(c) ==
    /\ session[c].pc = "m_history"
    /\ \E hist \in get_user_history(history, session[c].user_id,
                                    HistoryLimit) :
          session' = [session EXCEPT
             ![c].listed = hist,
             ![c].notices = @ \cup
                 (IF Truthy(hist) THEN {}
                  ELSE {"No conversation history yet"}),
             ![c].pc = "idle"]
    /\ UNCHANGED <<users, history, now, truncates, dbcall, apiKey, asrcall>>
    /\ UNCHANGED cachevars

\* the run of session c waits for its call into src/tts.py, whose steps
\* leave the session and the tables alone
AppWaits(c) ==
    /\ session[c].pc \in {"m_stats_wait", "m_clear_wait", "m_tts_wait"}
    /\ OutsideUnchanged

StepApp(c) ==
    \/ \E username \in AppUsernames, password \in RegisterPasswords,
          confirm \in RegisterPasswords :
          AppRegister(c, username, password, confirm)
    \/ \E username \in Usernames, password \in LoginPasswords :
          AppLogin(c, username, password)
    \/ \E event \in Events : AppStart(c, event)
    \/ AppStats(c)
    \/ AppCaption(c)
    \/ AppClear(c)
    \/ AppCleared(c)
    \/ AppKeyCheck(c)
    \/ AppTranscribe(c)
    \/ AppRespond(c)
    \/ AppSave(c)
    \/ AppSynthesize(c)
    \/ AppAudio(c)
    \/ AppPrevious(c)
    \/ AppHistory(c)
    \/ AppWaits(c) /\ EnsureCheck(c)
    \/ AppWaits(c) /\ EnsureMakedirs(c)
    \/ AppWaits(c) /\ CacheLookup(c)
    \/ AppWaits(c) /\ BackendAccepts(c)
    \/ AppWaits(c) /\ BackendRejects(c)
    \/ AppWaits(c) /\ SaveOpen(c)
    \/ AppWaits(c) /\ SaveWrite(c)
    \/ AppWaits(c) /\ SaveFails(c)
    \/ AppWaits(c) /\ ClearList(c)
    \/ AppWaits(c) /\ ClearRemove(c)
    \/ AppWaits(c) /\ ClearDone(c)
    \/ AppWaits(c) /\ StatsList(c)
    \/ AppWaits(c) /\ StatsSize(c)
    \/ AppWaits(c) /\ StatsDone(c)

\* one session of the application
NextApp == (\E c \in SeqCallers : StepApp(c)) \/ Tick

\* a run of the program: the cache on disk is empty or was filled by earlier
\* runs, there are no accounts yet, GROQ_API_KEY is unset, empty or set
InitApp ==
    /\ CacheEmpty \/ CacheStocked
    /\ users = <<>>
    /\ history = <<>>
    /\ now = 0
    /\ truncates = TRUE
    /\ dbcall = NoDbCall
    /\ apiKey \in ApiKeys
    /\ asrcall = NoAsrCall
    /\ session = [c \in Callers |-> NewSession]

SpecApp == InitApp /\ [][NextApp]_vars

----------------------------------------------------------------------------
(* The application after a first exchange *)

\* the accounts of ann and bob, registered through create_user
Registered ==
    LET ann == create_user(<<>>, "ann", Password("x", MinPasswordLen),
                           "s1", TRUE)
        bob == create_user(ann.users, "bob", Password("x", MinPasswordLen),
                           "s1", TRUE)
    IN  bob.users

\* the history after ann asked "a" and was answered "a"
Exchanged == save_conversation(<<>>, IntOf(1), <<"a">>, <<"a">>, 0).history

\* the cache after text_to_speech("a") synthesized and stored its audio
CacheSpoken ==
    /\ dirExists = TRUE
    /\ files = [name \in { CacheFileName(<<"a">>) } |->
                  << Chunk(<<"a">>, "en", FALSE, 1, 1) >>]
    /\ call = [c \in Callers |-> IdleCall]
    /\ ncalls = 0
    /\ seen = [r \in { << <<"a">>, "en", FALSE >> } |->
                 [loc |-> CachePath(<<"a">>), synth |-> 1, same |-> TRUE]]
    /\ clean = TRUE

\* the session of ann at the end of the run of that exchange
AfterExchange ==
    [NewSession EXCEPT
        !.authenticated = TRUE, !.user_id = IntOf(1),
        !.username = Name("ann"),
        !.last_transcript = Str(<<"a">>), !.last_response = Str(<<"a">>),
        !.audio_path = CachePath(<<"a">>),
        !.event = "record",
        !.transcript = Str(<<"a">>), !.response = Str(<<"a">>),
        !.audio = CachePath(<<"a">>),
        !.calls = {"stats", "asr", "llm", "save", "tts"},
        !.shown = Str(<<"a">>), !.caption = StatsDict(0, 0),
        !.listed = Rows(<< HistoryItem(Exchanged[1]) >>),
        !.saved = 1, !.played = TRUE]

\* the program a second after the first exchange of ann: the session of ann
\* is still open, or it is a new one and the cache directory was removed
\* since
InitLater ==
    /\ \/ /\ CacheSpoken
          /\ session = [c \in Callers |->
                          IF c \in SeqCallers THEN AfterExchange
                          ELSE NewSession]
       \/ /\ CacheEmpty
          /\ session = [c \in Callers |-> NewSession]
    /\ users = Registered
    /\ history = Exchanged
    /\ now = 1
    /\ truncates = TRUE
    /\ dbcall = NoDbCall
    /\ apiKey = Str(<<"k">>)
    /\ asrcall = NoAsrCall

SpecLater == InitLater /\ [][NextApp]_vars

----------------------------------------------------------------------------
(* asr.transcribe_audio(audio_bytes, prefer_whisper), one step per backend *)

\* src/asr.py lines 106-107: the call, and None for an empty recording
AsrCall(audio_bytes, prefer_whisper) ==
    /\ asrcall.pc \in {"idle", "done"}
    /\ asrcall' = [NoAsrCall EXCEPT
          !.audio_bytes = audio_bytes, !.prefer_whisper = prefer_whisper,
          !.pc = IF audio_bytes = <<>> THEN "done" ELSE "first"]
    /\ UNCHANGED <<users, history, now, truncates, dbcall, apiKey, session>>
    /\ UNCHANGED cachevars

\* the backend is invoked, its recognizer yields raw, and the call notes
\* what the backend returned
Invoked(backend, raw) ==
    [asrcall EXCEPT !.invoked = Append(@, backend),
                    !.raws = Append(@, raw),
                    !.got = Append(@, Transcribe(backend, raw))]

\* src/asr.py lines 110-113 and 121-124: the preferred backend, and the
\* return of its transcript
AsrFirst ==
    /\ asrcall.pc = "first"
    /\ \E raw \in Outcomes :
          LET backend == FirstBackend(asrcall.prefer_whisper)
              transcript == Transcribe(backend, raw)
          IN  asrcall' = IF Truthy(transcript)
                         THEN [Invoked(backend, raw) EXCEPT
                                  !.pc = "done", !.ret = transcript]
                         ELSE [Invoked(backend, raw) EXCEPT !.pc = "second"]
    /\ UNCHANGED <<users, history, now, truncates, dbcall, apiKey, session>>
    /\ UNCHANGED cachevars

\* src/asr.py lines 115-118, 126-129 and 131: the other backend, the return
\* of its transcript, and None when it has none either
AsrSecond ==
    /\ asrcall.pc = "second"
    /\ \E raw \in Outcomes :
          LET backend == OtherBackend(FirstBackend(asrcall.prefer_whisper))
              transcript == Transcribe(backend, raw)
          IN  asrcall' = [Invoked(backend, raw) EXCEPT
                            !.pc = "done",
                            !.ret = IF Truthy(transcript) THEN transcript
                                    ELSE None]
    /\ UNCHANGED <<users, history, now, truncates, dbcall, apiKey, session>>
    /\ UNCHANGED cachevars

NextAsr ==
    \/ \E audio_bytes \in AudioInputs, prefer_whisper \in BOOLEAN :
          AsrCall(audio_bytes, prefer_whisper)
    \/ AsrFirst
    \/ AsrSecond

SpecAsr == Init /\ [][NextAsr]_vars

----------------------------------------------------------------------------
(* Properties *)

\* session c has returned from a call of op
Returned(c, op) == call[c].pc = "done" /\ call[c].op = op

\* no session is inside a call
AtRest == \A c \in Callers : call[c].pc \in {"idle", "done"}

\* the name under which the request of session c is cached
KeyName(c) == CacheFileName(call[c].text)

\* the artifact of session c's request was in the store when c called
PresentAtCall(c) == call[c].preDir /\ KeyName(c) \in DOMAIN call[c].pre

WhitespaceOnly(text) == \A i \in 1..Len(text) : text[i] = " "

\* C1: a call of text_to_speech with non-blank text whose artifact is in the
\* store at the call returns the locator of that artifact and invokes the
\* backend zero times.
C1_CacheHitAvoidsBackend ==
    \A c \in Callers :
        (Returned(c, "tts") /\ ~WhitespaceOnly(call[c].text)
            /\ PresentAtCall(c))
        => /\ call[c].ret = PathOf(KeyName(c))
           /\ call[c].nsynth = 0
           /\ call[c].got = BytesOf(call[c].pre[KeyName(c)])

C1_Witness ==
    \E c \in Callers :
        /\ Returned(c, "tts") /\ PresentAtCall(c)
        /\ call[c].ret = PathOf(KeyName(c))
        /\ call[c].nsynth = 0

\* C2: a call of text_to_speech on an absent key whose backend succeeds
\* returns the locator of the key, and the store then holds under that key
\* exactly the audio the backend produced for the call.
C2_CacheMissPopulates ==
    \A c \in Callers :
        (Returned(c, "tts") /\ ~WhitespaceOnly(call[c].text)
            /\ ~PresentAtCall(c) /\ ~call[c].failed)
        => /\ call[c].nsynth = 1
           /\ call[c].ret = PathOf(KeyName(c))
           /\ KeyName(c) \in DOMAIN files
           /\ files[KeyName(c)] = call[c].audio
           /\ Complete(files[KeyName(c)])

C2_Witness ==
    \E c \in Callers :
        /\ Returned(c, "tts") /\ ~PresentAtCall(c) /\ ~call[c].failed
        /\ Len(call[c].audio) = MaxChunks
        /\ KeyName(c) \in DOMAIN files
        /\ files[KeyName(c)] = call[c].audio

\* C3 (as claimed): when the backend fails during a cache-miss call of
\* text_to_speech, the call returns None and the store is what it was before
\* the call: no entry, partial or empty, was added.
C3_FailureLeavesStoreUnchanged ==
    \A c \in Callers :
        (Returned(c, "tts") /\ call[c].failed)
        => /\ call[c].ret = None
           /\ files = call[c].pre

\* C4 (as claimed): requests that differ in text, language or rate have
\* different keys: after requests that all succeeded on a store that was
\* empty before them, each distinct request has its own locator and its own
\* entry in the store, and the backend was invoked for each.
C4_KeyDiscrimination ==
    (clean /\ AtRest)
    => /\ \A r1, r2 \in DOMAIN seen :
             r1 # r2 => seen[r1].loc # seen[r2].loc
       /\ \A r \in DOMAIN seen : seen[r].synth >= 1
       /\ Cardinality(DOMAIN files) = Cardinality(DOMAIN seen)

\* C5 (as claimed): in every state every file that an existence check finds
\* is a complete artifact, and every locator or byte string handed to a
\* caller is that of a complete artifact.
C5_AtomicVisibility ==
    /\ \A name \in DOMAIN files : Complete(files[name])
    /\ \A c \in Callers :
          /\ (Returned(c, "tts") /\ call[c].got.kind = "bytes")
                => Complete(call[c].got.data)
          /\ (Returned(c, "bytes") /\ call[c].ret.kind = "bytes")
                => Complete(call[c].ret.data)

\* C6: text_to_speech with empty or whitespace-only text returns None with
\* no backend invocation, no access to the filesystem, and the directory
\* and the files as they were.
C6_EmptyInputShortCircuit ==
    \A c \in Callers :
        (Returned(c, "tts") /\ WhitespaceOnly(call[c].text))
        => /\ call[c].ret = None
           /\ call[c].nsynth = 0
           /\ call[c].fsops = 0
           /\ files = call[c].pre
           /\ dirExists = call[c].preDir

C6_Witness ==
    \E c \in Callers :
        /\ Returned(c, "tts")
        /\ call[c].text # <<>> /\ WhitespaceOnly(call[c].text)
        /\ call[c].ret = None
        /\ ~dirExists

\* C7 (as claimed): in a sequence of calls with a succeeding backend on a
\* store that was empty before them, the backend is invoked exactly once per
\* distinct request, and every call for a request returned the same locator.
C7_OneSynthesisPerRequest ==
    (clean /\ AtRest)
    => \A r \in DOMAIN seen : seen[r].synth = 1 /\ seen[r].same

\* C8: clear_cache(max_files=m) leaves the store as it was when it holds at
\* most m artifacts and empties it when it holds more; clear_cache() empties
\* it; get_cache_stats called right after clear_cache() reports 0 files.
C8_ClearSemantics ==
    \A c \in Callers :
        /\ Returned(c, "clear")
           => LET n == Cardinality(DOMAIN call[c].pre)
                  m == call[c].max_files
              IN  /\ m = None => DOMAIN files = {}
                  /\ (m.kind = "int" /\ n <= m.val) => files = call[c].pre
                  /\ (m.kind = "int" /\ n > m.val) => DOMAIN files = {}
        /\ (Returned(c, "stats") /\ call[c].prev = "clear_all")
           => call[c].ret.file_count = 0

C8_Witness ==
    \E c \in Callers :
        /\ Returned(c, "clear")
        /\ call[c].max_files.kind = "int"
        /\ call[c].max_files.val >= 1
        /\ Cardinality(DOMAIN call[c].pre) > call[c].max_files.val
        /\ DOMAIN files = {}

NearestHundredth(h, total) ==
    LET d == h * MB - total * 100
    IN  /\ 2 * d <= MB
        /\ 2 * d >= 0 - MB
        /\ (2 * d = MB \/ 2 * d = 0 - MB) => h % 2 = 0

\* C10: get_cache_stats reports as file_count the number of artifacts in the
\* store and as total size the sum of their sizes in MB rounded to two
\* decimals; without a cache directory it reports 0 and 0.0.
C10_StatsCorrect ==
    \A c \in Callers :
        Returned(c, "stats")
        => /\ call[c].ret.file_count = Cardinality(DOMAIN files)
           /\ NearestHundredth(call[c].ret.total_size_mb, TotalBytes(files))
           /\ ~call[c].preDir => call[c].ret = StatsDict(0, 0)

C10_Witness ==
    \E c \in Callers :
        /\ Returned(c, "stats")
        /\ call[c].ret.file_count = 2
        /\ call[c].ret.total_size_mb > 0
        /\ TotalBytes(files) * 100 % MB # 0

\* a storage operation of session c's call failed: the call printed one of
\* the error messages of the except branches
StorageFailed(c) ==
    /\ call[c].pc = "done"
    /\ call[c].printed.kind = "msg"
    /\ call[c].printed.what \in { "Error reading audio file",
                                  "Error clearing cache",
                                  "Error getting cache stats" }

\* C11 (as claimed): a call during which a storage operation failed gives
\* its caller an outcome that differs from the normal "no result" (None)
\* and from the normal "empty cache" (0 files, 0.0 MB).
C11_StorageFailureDistinguishable ==
    \A c \in Callers :
        StorageFailed(c)
        => /\ call[c].ret # None
           /\ call[c].ret # StatsDict(0, 0)

\* C12 (as claimed): under concurrent sessions every call returns normally;
\* none raises an exception to its caller.
C12_NoExceptionEscapes ==
    \A c \in Callers : call[c].pc = "done" => call[c].ret.kind # "raise"

\* C13 (as claimed): a call changes the set of entries only by adding the
\* entry of the requested key when it is a miss whose synthesis succeeded,
\* or by removing entries when it is a clear; no call changes the content
\* of an entry that was there.
C13_EntryLifecycle ==
    \A c \in Callers :
        call[c].pc = "done"
        => LET added == DOMAIN files \ DOMAIN call[c].pre
               removed == DOMAIN call[c].pre \ DOMAIN files
               kept == DOMAIN files \cap DOMAIN call[c].pre
           IN  /\ \A f \in kept : files[f] = call[c].pre[f]
               /\ added # {} => /\ call[c].op \in {"tts", "bytes"}
                                /\ ~call[c].failed
                                /\ call[c].nsynth = 1
                                /\ added = {KeyName(c)}
               /\ removed # {} => call[c].op = "clear"

\* C19 (as claimed): when two sessions request the same text, both miss and
\* the backend succeeds for both, both calls return the same locator and the
\* store then holds under the key one complete entry whose content is the
\* output of one of the two synthesis calls.
C19_RacingMissesBenign ==
    \A c, d \in Callers :
        (/\ c # d
         /\ Returned(c, "tts") /\ Returned(d, "tts")
         /\ call[c].text = call[d].text
         /\ call[c].nsynth = 1 /\ call[d].nsynth = 1
         /\ ~call[c].failed /\ ~call[d].failed)
        => /\ call[c].ret = call[d].ret
           /\ call[c].ret = PathOf(KeyName(c))
           /\ KeyName(c) \in DOMAIN files
           /\ Complete(files[KeyName(c)])
           /\ files[KeyName(c)] \in {call[c].audio, call[d].audio}

\* C20 (as claimed): what get_cache_stats returns is the file count and the
\* rounded total size of the store as it was at one instant between the
\* call and its return.
C20_StatsConsistentSnapshot ==
    \A c \in Callers :
        Returned(c, "stats")
        => \E sn \in call[c].snaps :
              /\ call[c].ret.file_count = sn[1]
              /\ NearestHundredth(call[c].ret.total_size_mb, sn[2])

\* a text was obtained from a collaborator
Obtained(v) == v.kind = "str" /\ v.val # <<>>

\* row saved of the history table is the exchange of the run of session c
SavedExchange(c) ==
    /\ session[c].saved \in 1..Len(history)
    /\ session[c].user_id.kind = "int"
    /\ history[session[c].saved].user_id = session[c].user_id.val
    /\ history[session[c].saved].user_query = session[c].transcript.val
    /\ history[session[c].saved].assistant_response = session[c].response.val

\* the run of session c is past the return of text_to_speech
PastSynthesis(c) ==
    "tts" \in session[c].calls /\ session[c].pc \in {"m_history", "idle"}

\* C14: in an interaction where transcription and the LLM both gave a
\* result, the exchange is in the user's history, and the response is in the
\* session and on the page, before text_to_speech is called; when
\* text_to_speech returned None they still are, no audio is played, and the
\* notice that the audio failed is shown.
C14_GracefulDegradation ==
    \A c \in Callers :
        /\ (session[c].pc = "m_tts" \/ "tts" \in session[c].calls)
           => /\ SavedExchange(c)
              /\ session[c].last_response = session[c].response
              /\ session[c].shown = session[c].response
        /\ (PastSynthesis(c) /\ session[c].audio = None)
           => /\ "Failed to generate audio response" \in session[c].notices
              /\ ~session[c].played
              /\ ~session[c].crashed

\* a finished run in which text_to_speech returned None for a response that
\* was obtained, saved and shown
C14_Witness ==
    \E c \in Callers :
        /\ PastSynthesis(c)
        /\ session[c].pc = "idle"
        /\ session[c].listed # None
        /\ session[c].audio = None
        /\ call[c].ret = None
        /\ SavedExchange(c)
        /\ session[c].shown = session[c].response

\* C15: when transcription gives no text, the LLM, the history append and
\* the synthesis are not called; when the LLM gives no response, the history
\* append and the synthesis are not called; a row is appended to the history
\* only when both a transcript and a response were obtained, and it is that
\* exchange; no run crashes.
C15_AbsencePropagates ==
    \A c \in Callers :
        /\ ("asr" \in session[c].calls /\ ~Obtained(session[c].transcript))
           => /\ session[c].calls \cap {"llm", "save", "tts"} = {}
              /\ session[c].pc \notin {"m_llm", "m_save", "m_tts"}
              /\ session[c].saved = 0
        /\ ("llm" \in session[c].calls /\ ~Obtained(session[c].response))
           => /\ session[c].calls \cap {"save", "tts"} = {}
              /\ session[c].pc \notin {"m_save", "m_tts"}
              /\ session[c].saved = 0
        /\ (session[c].calls \cap {"llm", "save", "tts"} # {})
           => Obtained(session[c].transcript)
        /\ (session[c].calls \cap {"save", "tts"} # {})
           => Obtained(session[c].response)
        /\ session[c].saved # 0 => SavedExchange(c)
        /\ ~session[c].crashed

\* a finished run in which the transcript was obtained and the LLM gave no
\* response
C15_Witness ==
    \E c \in Callers :
        /\ session[c].pc = "idle"
        /\ session[c].listed # None
        /\ "llm" \in session[c].calls
        /\ Obtained(session[c].transcript)
        /\ ~Obtained(session[c].response)
        /\ "Failed to get response from assistant" \in session[c].notices

\* GROQ_API_KEY holds a credential
KeyPresent == apiKey.kind = "str" /\ apiKey.val # <<>>

\* the calls of the conversation loop
LoopCalls == {"asr", "llm", "save", "tts"}

\* C16: without GROQ_API_KEY a run calls neither the transcription, nor the
\* LLM, nor the history append, nor the synthesis; with or without it the
\* run shows the statistics of the cache as it is, and the Clear Cache
\* button empties the cache.
C16_MissingKeyStopsLoopOnly ==
    \A c \in Callers :
        /\ ~KeyPresent
           => /\ session[c].calls \cap LoopCalls = {}
              /\ session[c].pc \notin {"m_asr", "m_llm", "m_save", "m_tts",
                                       "m_tts_wait"}
              /\ session[c].saved = 0
              /\ history = <<>>
        /\ session[c].pc \in {"m_key", "m_clear"}
           => /\ session[c].caption.kind = "stats"
              /\ session[c].caption.file_count = Cardinality(DOMAIN files)
              /\ NearestHundredth(session[c].caption.total_size_mb,
                                  TotalBytes(files))
        /\ (session[c].pc = "idle" /\ "clear" \in session[c].calls)
           => /\ DOMAIN files = {}
              /\ "Cache cleared!" \in session[c].notices

\* without the key, a session saw the statistics of a cache that held
\* artifacts, and cleared it
C16_Witness ==
    \E c \in Callers :
        /\ ~KeyPresent
        /\ session[c].authenticated
        /\ session[c].pc = "idle"
        /\ "clear" \in session[c].calls
        /\ session[c].caption.kind = "stats"
        /\ session[c].caption.file_count > 0
        /\ DOMAIN files = {}

\* C17 (as claimed): get_user_history(user_id, limit) returns at most limit
\* entries, all of user_id, and of any two of them the one saved later comes
\* first, also when both were saved within the same second; with limit 1 it
\* returns the exchange saved last.
C17_HistoryMostRecentFirst ==
    dbcall.op = "get_user_history"
    => LET got == dbcall.ret.rows
           mine == HistoryRows(history, dbcall.user_id)
       IN  /\ Len(got) <= dbcall.limit
           /\ \A j \in 1..Len(got) : got[j].id \in mine
           /\ \A j, k \in 1..Len(got) : j < k => got[j].id > got[k].id
           /\ (dbcall.limit = 1 /\ mine # {})
              => /\ Len(got) = 1
                 /\ \A i \in mine : i <= got[1].id

\* C18 (as claimed): no two users share a username; create_user on a taken
\* username returns None and leaves the users table as it was;
\* authenticate_user returns the id of the user with that username when the
\* password is the one the user was created with, and None otherwise.
C18_UsersAndAuthentication ==
    /\ \A i, j \in 1..Len(users) :
          users[i].username = users[j].username => i = j
    /\ (dbcall.op = "create_user" /\ UserRows(dbcall.users0, dbcall.username) # {})
       => /\ dbcall.ret = None
          /\ users = dbcall.users0
    /\ dbcall.op = "authenticate_user"
       => LET match == { i \in 1..Len(users) :
                           /\ users[i].username = dbcall.username
                           /\ users[i].password = dbcall.password }
          IN  IF match = {} THEN dbcall.ret = None
              ELSE \E i \in match : dbcall.ret = IntOf(users[i].id)

\* C21: transcribe_audio returns None for an empty recording without invoking
\* a backend; otherwise it invokes the preferred backend first (Whisper when
\* prefer_whisper, speech_recognition when not), the other one only after
\* the first returned no text, each at most once; it returns the first
\* transcript obtained, and None only when both backends returned no text.
C21_AsrFallbackOrder ==
    LET n == Len(asrcall.invoked)
        first == IF asrcall.prefer_whisper THEN "whisper" ELSE "sr"
        texts == { i \in 1..n : Obtained(asrcall.got[i]) }
    IN  /\ n <= 2
        /\ n >= 1 => asrcall.invoked[1] = first
        /\ n = 2 => /\ asrcall.invoked[2] # asrcall.invoked[1]
                    /\ ~Obtained(asrcall.got[1])
        /\ asrcall.audio_bytes = <<>> => n = 0
        /\ asrcall.pc = "done"
           => IF asrcall.audio_bytes = <<>> THEN asrcall.ret = None
              ELSE IF texts = {} THEN asrcall.ret = None /\ n = 2
              ELSE /\ texts = {n}
                   /\ asrcall.ret = asrcall.got[n]
                   /\ Obtained(asrcall.ret)

\* a call that prefers speech_recognition, got no text from it, and returned
\* the transcript of Whisper
C21_Witness ==
    /\ asrcall.pc = "done"
    /\ ~asrcall.prefer_whisper
    /\ asrcall.invoked = <<"sr", "whisper">>
    /\ ~Obtained(asrcall.got[1])
    /\ Obtained(asrcall.ret)

\* the session of c says who is logged in: its user_id and username are
\* those of one account; a session that is not logged in holds nothing
SessionOf(c) ==
    IF session[c].authenticated
    THEN /\ session[c].user_id.kind = "int"
         /\ session[c].username.kind = "name"
         /\ \E i \in DOMAIN users :
               /\ users[i].id = session[c].user_id.val
               /\ users[i].username = session[c].username.val
    ELSE /\ session[c].user_id = None
         /\ session[c].username = None
         /\ session[c].last_transcript = None
         /\ session[c].last_response = None
         /\ session[c].audio_path = None

\* C22: in every state of a session, authenticated is true exactly when
\* user_id and username are set, to the user of the last successful login
\* (they are one account, and they do not change while the session stays
\* logged in); whenever authenticated is false, user_id, username,
\* last_transcript, last_response and audio_path are all None.
C22_SessionIdentity ==
    /\ [](\A c \in SeqCallers : SessionOf(c))
    /\ [][\A c \in SeqCallers :
            session[c].authenticated /\ session'[c].authenticated
            => /\ session'[c].user_id = session[c].user_id
               /\ session'[c].username = session[c].username]_vars

\* a session that logged out after an exchange that was spoken
C22_Witness ==
    \E c \in SeqCallers :
        /\ ~session[c].authenticated
        /\ session[c].event = "logout"
        /\ call[c].op = "tts"
        /\ history # <<>>

\* the history holds an exchange of the user of session c whose query is
\* last_transcript and whose response is last_response
PairOfOneExchange(c) ==
    \E i \in DOMAIN history :
        /\ session[c].user_id.kind = "int"
        /\ history[i].user_id = session[c].user_id.val
        /\ history[i].user_query = session[c].last_transcript.val
        /\ history[i].assistant_response = session[c].last_response.val

\* C23: in every state of a session between two runs in which
\* last_transcript and last_response are both set, they are the query and
\* the response of one and the same exchange of the current user, also
\* after a run whose transcription succeeded and whose response failed.
C23_TranscriptAndResponsePaired ==
    \A c \in SeqCallers :
        /\ session[c].pc = "idle"
        /\ Truthy(session[c].last_transcript)
        /\ Truthy(session[c].last_response)
        => PairOfOneExchange(c)

\* C24: in every state of a session between two runs in which audio_path is
\* set, it is the locator that text_to_speech returned for the current
\* last_response, also after a run whose synthesis returned None when the
\* synthesis of an earlier exchange had succeeded.
C24_AudioOfLastResponse ==
    \A c \in SeqCallers :
        /\ session[c].pc = "idle"
        /\ Truthy(session[c].audio_path)
        => /\ Truthy(session[c].last_response)
           /\ session[c].audio_path = CachePath(session[c].last_response.val)

====
